---- MODULE Spec2Model ----
(***************************************************************************)
(* Model of the pattern-matching engine of include/patterns.h (namespace   *)
(* matchit::impl): pattern algebra, capture cells (Id), the dispatcher     *)
(* matchPattern / resetId, the combinator rules, the tuple destructurer    *)
(* (TupleMatchHelper) and the Ooo ("rest") resolver (tryOooMatch...).      *)
(*                                                                         *)
(* A match is a synchronous recursive computation, so each public call is  *)
(* one action; the recursive evaluation is a family of RECURSIVE operators *)
(* that thread the evaluation state (cells, event log, pending exception). *)
(***************************************************************************)
EXTENDS Integers, Sequences, FiniteSets, TLC

(***************************************************************************)
(* Bounds of the model.                                                    *)
(***************************************************************************)
MaxLen == 3        \* longest generated value tuple

(***************************************************************************)
(* Values: an int, or a std::tuple of values.  Null is the empty           *)
(* unique_ptr of a capture cell.                                           *)
(***************************************************************************)
IntV(i) == [t |-> "int", n |-> i, es |-> <<>>]
TupV(s) == [t |-> "tup", n |-> 0, es |-> s]
Null == [t |-> "null", n |-> 0, es |-> <<>>]

(***************************************************************************)
(* Patterns.  k is the pattern class, n a literal value or the identity of *)
(* the shared cell of an Id, f the name of a callable (Meet predicate, App *)
(* unary, PostCheck guard), ps the sub-patterns.                           *)
(***************************************************************************)
Node(k, n, f, ps) == [k |-> k, n |-> n, f |-> f, ps |-> ps]
Lit(i) == Node("Lit", i, "", <<>>)
Wildcard == Node("Wildcard", 0, "", <<>>)
Or(ps) == Node("Or", 0, "", ps)
Meet(f) == Node("Meet", 0, f, <<>>)
App(f, p) == Node("App", 0, f, <<p>>)
And(ps) == Node("And", 0, "", ps)
Not(p) == Node("Not", 0, "", <<p>>)
Id(c) == Node("Id", c, "", <<>>)
RefId(c) == Node("Id", c, "ref", <<>>)
Ds(ps) == Node("Ds", 0, "", ps)
Ooo(p) == Node("Ooo", 0, "", <<p>>)
PostCheck(p, g) == Node("PostCheck", 0, g, <<p>>)

isOooV(p) == p.k = "Ooo"

(***************************************************************************)
(* Copies.  Every pattern class stores its sub-patterns by value, and drop *)
(* rebuilds the remaining patterns with std::make_tuple, so the Ids inside *)
(* a pattern are copies of the caller's.  Id has the implicit copy         *)
(* constructor: it copies the shared_ptr mValue, so the copy designates    *)
(* the cell of the original.                                               *)
(***************************************************************************)
\* mutant: the copy of an Id gets a cell of its own, not that of the original
Id_copy_ownCell(p) == [p EXCEPT !.n = 3 - p.n]

Id_copy(p) == p

RECURSIVE Copy(_)
Copy(p) ==
    IF p.k = "Id" THEN Id_copy(p)
    ELSE [p EXCEPT !.ps = [i \in 1..Len(p.ps) |-> Copy(p.ps[i])]]

\* drop<N>(patterns): std::make_tuple of copies of the patterns after the first N
dropPatterns(N, ps) == [i \in 1..(Len(ps) - N) |-> Copy(ps[N + i])]

\* the capture cells of the model: x and y
CellIds == {1, 2}

\* callables handed to meet(), app() and when()
Pred(f, v) ==
    CASE f = "isEven" -> v.n % 2 = 0
      [] f = "isOdd" -> v.n % 2 = 1
      [] OTHER -> FALSE

Unary(f, v) ==
    CASE f = "succ" -> IntV(v.n + 1)
      [] OTHER -> v

Guard(g, cells) ==
    CASE g = "true" -> TRUE
      [] g = "false" -> FALSE
      [] g = "xIsEven" -> cells[1].n % 2 = 0
      [] OTHER -> FALSE

drop(N, s) == SubSeq(s, N + 1, Len(s))
take(N, s) == SubSeq(s, 1, N)

(***************************************************************************)
(* Evaluation state threaded through one call: the result of the last      *)
(* completed sub-call, whether an OooMatchBreak is propagating, the cells, *)
(* and the log of evaluation events.                                       *)
(*                                                                         *)
(* Storage.  A value reaches a pattern by reference, so it lives in the    *)
(* object the caller passed (Orig) or in a temporary made on the way: a    *)
(* tuple returned by drop (std::make_tuple copies the elements) or the     *)
(* result of an App's unary.  cur is the storage the current value lives   *)
(* in, live the temporaries not yet destroyed, next the next fresh         *)
(* temporary.  ref[c] is the storage a referencing cell points into        *)
(* (NoRef for an empty or an owning cell), and cells[c] the value read     *)
(* through it while that storage lives.  ub is the outcome of a comparison *)
(* that reads through a dangling pointer, chosen by the caller of St.      *)
(***************************************************************************)
NoRef == -1
Orig == 0
Dead == -2
Ev(ev, path, k, ok) == [ev |-> ev, path |-> path, k |-> k, ok |-> ok, v |-> Null]
Call(path, v) == [ev |-> "call", path |-> path, k |-> 0, ok |-> FALSE, v |-> v]
StRef(cells, ref, ub) ==
    [res |-> FALSE, exc |-> FALSE, cells |-> cells, log |-> <<>>,
     ref |-> ref, cur |-> Orig, next |-> 1, live |-> {}, ub |-> ub]
St(cells) == StRef(cells, [c \in CellIds |-> NoRef], FALSE)
\* a temporary is constructed and the value to match lives in it
Temp(st) == [st EXCEPT !.cur = st.next, !.live = @ \cup {st.next}, !.next = @ + 1]
\* the temporaries constructed since st0 are destroyed
Leave(st, st0) == [st EXCEPT !.cur = st0.cur, !.live = st0.live]
Emit(st, e) == [st EXCEPT !.log = Append(@, e)]
Ret(st, b) == [st EXCEPT !.res = b]
Throw(st) == [st EXCEPT !.exc = TRUE, !.res = FALSE]

(***************************************************************************)
(* Static layer.  MatchFuncDefined is the SFINAE query "does               *)
(* matchPattern(value, pattern) have a viable overload"; types are         *)
(* determined by the shape of a value (an int, or a tuple of shapes), so   *)
(* the query is computed on the value.  Leaf patterns of the model are     *)
(* int-typed: a literal int, Id<int>, an int predicate, an int unary.      *)
(***************************************************************************)
RECURSIVE MatchFuncDefined(_, _)
RECURSIVE TupleMatchDefined(_, _)
RECURSIVE Compiles(_, _)
RECURSIVE TupleCompiles(_, _)
RECURSIVE OooCompiles(_, _)
RECURSIVE matchPattern(_, _, _, _)
RECURSIVE Or_matchPatternImpl(_, _, _, _, _)
RECURSIVE And_matchPatternImpl(_, _, _, _, _)
RECURSIVE Ooo_matchPatternImpl(_, _, _, _, _)
RECURSIVE tupleMatchImpl(_, _, _, _, _)
RECURSIVE tryOooMatch(_, _, _, _, _)
RECURSIVE tryOooMatchImpl(_, _, _, _, _)
RECURSIVE tryOooMatchImplHelper(_, _, _, _, _, _)
RECURSIVE tryOooMatchFold(_, _, _, _, _, _)
RECURSIVE resetId(_, _)
RECURSIVE resetIdAll(_, _, _)

\* decltype of TupleMatchHelper<ValuesTuple, PatternsTuple>::tupleMatchImpl
TupleMatchDefined(values, patterns) ==
    IF patterns = <<>> THEN TRUE                       \* returns false / true
    ELSE IF isOooV(patterns[1]) THEN TRUE              \* decltype(tryOooMatch(..)) is bool
    ELSE IF values = <<>> THEN FALSE                   \* = delete
    ELSE /\ MatchFuncDefined(values[1], patterns[1])
         /\ TupleMatchDefined(drop(1, values), drop(1, patterns))

MatchFuncDefined(v, p) ==
    CASE p.k = "Lit" -> v.t = "int"                    \* decltype(pattern == value)
      [] p.k = "Wildcard" -> TRUE
      [] p.k \in {"Or", "And"} ->
            \A i \in 1..Len(p.ps) : MatchFuncDefined(v, p.ps[i])
      [] p.k = "Meet" -> v.t = "int"                   \* decltype(meetPat(value))
      [] p.k = "App" -> v.t = "int" /\ MatchFuncDefined(Unary(p.f, v), p.ps[1])
      [] p.k \in {"Not", "PostCheck"} -> MatchFuncDefined(v, p.ps[1])
      [] p.k = "Id" -> v.t = "int"                     \* decltype(**mValue == value, ...)
      [] p.k = "Ds" ->
            IF v.t = "tup" THEN TupleMatchDefined(v.es, p.ps)
            ELSE p.ps = <<>> \/ isOooV(p.ps[1])
      [] p.k = "Ooo" ->
            v.t = "tup" /\ \A i \in 1..Len(v.es) : MatchFuncDefined(v.es[i], p.ps[1])

(***************************************************************************)
(* Compiles(v, p): instantiating matchPattern(v, p) raises no hard error.  *)
(* The only hard error of the model's pattern classes is tryOooMatch       *)
(* instantiated with a non-tuple (std::tuple_size_v<int>): decltype        *)
(* accepts a Ds whose head is an Ooo against any value.  Every I of the    *)
(* fold of tryOooMatchImpl is instantiated, whatever happens at run time.  *)
(***************************************************************************)
OooCompiles(values, patterns) ==
    IF patterns = <<>> THEN TRUE
    ELSE IF isOooV(patterns[1]) THEN
        \A I \in 0..Len(values) :
            IF I = 0 THEN OooCompiles(values, drop(1, patterns))
            ELSE IF MatchFuncDefined(TupV(take(I, values)), patterns[1])
                 THEN /\ Compiles(values[I], patterns[1].ps[1])
                      /\ OooCompiles(drop(I, values), drop(1, patterns))
                 ELSE TRUE
    ELSE IF Len(values) >= 1 /\ MatchFuncDefined(values[1], patterns[1])
         THEN /\ Compiles(values[1], patterns[1])
              /\ OooCompiles(drop(1, values), drop(1, patterns))
         ELSE TRUE

TupleCompiles(values, patterns) ==
    IF patterns = <<>> THEN TRUE
    ELSE IF isOooV(patterns[1]) THEN OooCompiles(values, patterns)
    ELSE /\ Compiles(values[1], patterns[1])
         /\ TupleCompiles(drop(1, values), drop(1, patterns))

Compiles(v, p) ==
    /\ MatchFuncDefined(v, p)
    /\ CASE p.k \in {"Or", "And"} -> \A i \in 1..Len(p.ps) : Compiles(v, p.ps[i])
         [] p.k = "App" -> Compiles(Unary(p.f, v), p.ps[1])
         [] p.k \in {"Not", "PostCheck"} -> Compiles(v, p.ps[1])
         [] p.k = "Ds" -> IF v.t = "tup" THEN TupleCompiles(v.es, p.ps) ELSE p.ps = <<>>
         [] p.k = "Ooo" -> \A i \in 1..Len(v.es) : Compiles(v.es[i], p.ps[1])
         [] OTHER -> TRUE

(***************************************************************************)
(* Capture cell.                                                           *)
(***************************************************************************)
\* IdTrait<true>::matchValueImpl: the cell takes an owned copy of the value
IdTrait_matchValueImpl(cells, c, v) == [cells EXCEPT ![c] = v]

\* mutant: a committed cell is rebound to the new value
Id_matchValue_rebind(v, p, path, st) ==
    Ret(Emit([st EXCEPT !.cells = IdTrait_matchValueImpl(@, p.n, v)],
             Ev("commit", path, p.n, TRUE)), TRUE)

\* IdTrait<false>::matchValueImpl: ptr.reset(&value), the cell points into
\* the storage the value lives in
IdTrait_false_matchValueImpl(st, c, v) ==
    [st EXCEPT !.cells[c] = v, !.ref[c] = st.cur]

\* the cell points into a temporary that was destroyed
Dangling(st, c) == st.ref[c] \notin {NoRef, Orig} \cup st.live

\* Id::matchValue.  **mValue == value through a dangling pointer is
\* undefined: it yields st.ub
Id_matchValue(v, p, path, st) ==
    IF st.cells[p.n] # Null
    THEN IF Dangling(st, p.n)
         THEN Ret(Emit(st, Ev("dangling", path, p.n, st.ub)), st.ub)
         ELSE Ret(st, st.cells[p.n] = v)
    ELSE IF p.f = "ref"
    THEN Ret(Emit(IdTrait_false_matchValueImpl(st, p.n, v),
                  Ev("commit", path, p.n, TRUE)), TRUE)
    ELSE Ret(Emit([st EXCEPT !.cells = IdTrait_matchValueImpl(@, p.n, v)],
                  Ev("commit", path, p.n, TRUE)), TRUE)

\* Id::reset
Id_reset(cells, c) == [cells EXCEPT ![c] = Null]

(***************************************************************************)
(* Combinator rules: PatternTraits<...>::matchPatternImpl.                 *)
(***************************************************************************)
\* mutant: the fold with | in place of ||, every sub-pattern is evaluated
Or_matchPatternImpl_eager(v, ps, i, path, st) ==
    IF i > Len(ps) THEN Ret(st, FALSE)
    ELSE LET r == matchPattern(v, ps[i], Append(path, i), st)
         IN IF r.exc THEN r
            ELSE LET q == Or_matchPatternImpl(v, ps, i + 1, path, r)
                 IN IF q.exc THEN q ELSE Ret(q, r.res \/ q.res)

\* the fold (matchPattern(value, patterns) || ...), from sub-pattern i on
Or_matchPatternImpl(v, ps, i, path, st) ==
    IF i > Len(ps) THEN Ret(st, FALSE)
    ELSE LET r == matchPattern(v, ps[i], Append(path, i), st)
         IN IF r.exc \/ r.res THEN r
            ELSE Or_matchPatternImpl(v, ps, i + 1, path, r)

\* the fold (matchPattern(value, patterns) && ...), from sub-pattern i on
And_matchPatternImpl(v, ps, i, path, st) ==
    IF i > Len(ps) THEN Ret(st, TRUE)
    ELSE LET r == matchPattern(v, ps[i], Append(path, i), st)
         IN IF r.exc \/ ~r.res THEN r
            ELSE And_matchPatternImpl(v, ps, i + 1, path, r)

\* mutant: the negation empties the cells of its sub-pattern when it returns
Not_matchPatternImpl_resetting(v, p, path, st) ==
    LET r == matchPattern(v, p.ps[1], Append(path, 1), st)
    IN IF r.exc THEN r ELSE Ret([r EXCEPT !.cells = resetId(p.ps[1], @)], ~r.res)

\* return !matchPattern(value, notPat.pattern())
Not_matchPatternImpl(v, p, path, st) ==
    LET r == matchPattern(v, p.ps[1], Append(path, 1), st)
    IN IF r.exc THEN r ELSE Ret(r, ~r.res)

\* matchPattern(std::invoke(appPat.unary(), value), appPat.pattern()): the
\* result of the unary is a temporary
App_matchPatternImpl(v, p, path, st) ==
    matchPattern(Unary(p.f, v), p.ps[1], Append(path, 1), Temp(st))

\* mutant: & in place of &&, the guard runs whether or not the pattern matched
PostCheck_matchPatternImpl_alwaysCheck(v, p, path, st) ==
    LET r == matchPattern(v, p.ps[1], Append(path, 1), st)
    IN IF r.exc THEN r
       ELSE LET g == Guard(p.f, r.cells)
            IN Ret(Emit(r, Ev("guard", path, 0, g)), r.res /\ g)

\* matchPattern(value, postCheck.pattern()) && postCheck.check()
PostCheck_matchPatternImpl(v, p, path, st) ==
    LET r == matchPattern(v, p.ps[1], Append(path, 1), st)
    IN IF r.exc \/ ~r.res THEN r
       ELSE LET g == Guard(p.f, r.cells)
            IN Ret(Emit(r, Ev("guard", path, 0, g)), g)

\* PatternTraits<Ooo<Pattern>>::matchPatternImpl on a whole tuple:
\* (matchPattern(values, oooPat.pattern()) && ...), from element i on
Ooo_matchPatternImpl(values, p, i, path, st) ==
    IF i > Len(values) THEN Ret(st, TRUE)
    ELSE LET r == matchPattern(values[i], p.ps[1], Append(path, 1), st)
         IN IF r.exc \/ ~r.res THEN r
            ELSE Ooo_matchPatternImpl(values, p, i + 1, path, r)

\* PatternTraits<Ooo<Pattern>>::matchPatternImplSingle
Ooo_matchPatternImplSingle(v, oooPat, path, st) ==
    matchPattern(v, oooPat.ps[1], Append(path, 1), st)

(***************************************************************************)
(* Dispatcher.  Every call logs "call" on entry and "ret" with its result  *)
(* on normal return; a call left by an exception logs no "ret".  The       *)
(* temporaries made inside a call are destroyed when it is left.           *)
(***************************************************************************)
PatternTraits_matchPatternImpl(v, p, path, st) ==
    CASE p.k = "Lit" -> Ret(st, v = IntV(p.n))         \* pattern == value
      [] p.k = "Wildcard" -> Ret(st, TRUE)
      [] p.k = "Or" -> Or_matchPatternImpl(v, p.ps, 1, path, st)
      [] p.k = "Meet" -> Ret(st, Pred(p.f, v))
      [] p.k = "App" -> App_matchPatternImpl(v, p, path, st)
      [] p.k = "And" -> And_matchPatternImpl(v, p.ps, 1, path, st)
      [] p.k = "Not" -> Not_matchPatternImpl(v, p, path, st)
      [] p.k = "Id" -> Id_matchValue(v, p, path, st)
      [] p.k = "Ds" ->
            IF v.t = "tup" THEN tupleMatchImpl(v.es, p.ps, path, 0, st)
            ELSE Ret(st, FALSE)       \* TupleMatchHelper<ValuesTuple, std::tuple<>>
      [] p.k = "Ooo" -> Ooo_matchPatternImpl(v.es, p, 1, path, st)
      [] p.k = "PostCheck" -> PostCheck_matchPatternImpl(v, p, path, st)

matchPattern(v, p, path, st) ==
    LET r == Leave(PatternTraits_matchPatternImpl(v, p, path, Emit(st, Call(path, v))), st)
    IN IF r.exc THEN r ELSE Emit(r, Ev("ret", path, 0, r.res))

(***************************************************************************)
(* Tuple destructurer: TupleMatchHelper<...>::tupleMatchImpl.  values and  *)
(* patterns are the slices left after off elements were dropped from both; *)
(* path is the Ds node, so patterns[1] is sub-pattern off + 1 of it.       *)
(***************************************************************************)
tupleMatchImpl(values, patterns, path, off, st) ==
    IF patterns = <<>> THEN Ret(st, values = <<>>)
    ELSE IF isOooV(patterns[1]) THEN tryOooMatch(values, patterns, path, off, st)
    ELSE IF values = <<>> THEN Ret(Emit(st, Ev("deleted", path, off, FALSE)), FALSE)
    ELSE LET r == matchPattern(values[1], patterns[1], Append(path, off + 1), st)
         IN IF r.exc \/ ~r.res THEN r
            ELSE tupleMatchImpl(drop(1, values), dropPatterns(1, patterns), path, off + 1, Temp(r))

(***************************************************************************)
(* Rest resolver.                                                          *)
(***************************************************************************)
\* mutant: a fixed pattern of the continuation that fails aborts the search
tryOooMatch_abortOnHead(values, patterns, path, off, st) ==
    IF patterns = <<>> THEN Ret(st, values = <<>>)
    ELSE IF isOooV(patterns[1]) THEN tryOooMatchImpl(values, patterns, path, off, st)
    ELSE IF Len(values) >= 1 /\ MatchFuncDefined(values[1], patterns[1])
    THEN LET r == matchPattern(values[1], patterns[1], Append(path, off + 1), st)
         IN IF r.exc THEN r
            ELSE IF ~r.res THEN Throw(Emit(r, Ev("throw", path, 0, FALSE)))
            ELSE tryOooMatch(drop(1, values), dropPatterns(1, patterns), path, off + 1, Temp(r))
    ELSE Ret(st, FALSE)

tryOooMatch(values, patterns, path, off, st) ==
    IF patterns = <<>> THEN Ret(st, values = <<>>)
    ELSE IF isOooV(patterns[1]) THEN tryOooMatchImpl(values, patterns, path, off, st)
    ELSE IF Len(values) >= 1 /\ MatchFuncDefined(values[1], patterns[1])
    THEN LET r == matchPattern(values[1], patterns[1], Append(path, off + 1), st)
         IN IF r.exc \/ ~r.res THEN r
            ELSE tryOooMatch(drop(1, values), dropPatterns(1, patterns), path, off + 1, Temp(r))
    ELSE Ret(st, FALSE)

\* mutant: a failed continuation aborts the search as a failed element does
tryOooMatchImplHelper_abortOnContinuation(I, values, patterns, path, off, st) ==
    IF I = 0
    THEN LET r == tryOooMatch(values, dropPatterns(1, patterns), path, off + 1,
                              Emit(st, Ev("try", path, 0, FALSE)))
         IN IF r.exc THEN r
            ELSE IF ~r.res
            THEN Throw(Emit(Emit(r, Ev("cont", path, 0, FALSE)), Ev("throw", path, 0, FALSE)))
            ELSE Emit(r, Ev("cont", path, 0, TRUE))
    ELSE IF MatchFuncDefined(TupV(take(I, values)), patterns[1])
    THEN LET e == Ooo_matchPatternImplSingle(values[I], patterns[1],
                        Append(path, off + 1), Emit(st, Ev("try", path, I, FALSE)))
         IN IF e.exc THEN e
            ELSE IF ~e.res
            THEN Throw(Emit(Emit(e, Ev("elem", path, I - 1, FALSE)), Ev("throw", path, I, FALSE)))
            ELSE LET r == tryOooMatch(drop(I, values), dropPatterns(1, patterns), path, off + 1,
                                      Temp(Emit(e, Ev("elem", path, I - 1, TRUE))))
                 IN IF r.exc THEN r
                    ELSE IF ~r.res
                    THEN Throw(Emit(Emit(r, Ev("cont", path, I, FALSE)), Ev("throw", path, I, FALSE)))
                    ELSE Emit(r, Ev("cont", path, I, TRUE))
    ELSE Throw(Emit(Emit(st, Ev("try", path, I, FALSE)), Ev("throw", path, I, FALSE)))

\* mutant: an element failing P only fails its candidate, the fold goes on
tryOooMatchImplHelper_noBreak(I, values, patterns, path, off, st) ==
    IF I = 0
    THEN LET r == tryOooMatch(values, dropPatterns(1, patterns), path, off + 1,
                              Emit(st, Ev("try", path, 0, FALSE)))
         IN IF r.exc THEN r ELSE Emit(r, Ev("cont", path, 0, r.res))
    ELSE IF MatchFuncDefined(TupV(take(I, values)), patterns[1])
    THEN LET e == Ooo_matchPatternImplSingle(values[I], patterns[1],
                        Append(path, off + 1), Emit(st, Ev("try", path, I, FALSE)))
         IN IF e.exc THEN e
            ELSE IF ~e.res
            THEN Ret(Emit(e, Ev("elem", path, I - 1, FALSE)), FALSE)
            ELSE LET r == tryOooMatch(drop(I, values), dropPatterns(1, patterns), path, off + 1,
                                      Temp(Emit(e, Ev("elem", path, I - 1, TRUE))))
                 IN IF r.exc THEN r ELSE Emit(r, Ev("cont", path, I, r.res))
    ELSE Throw(Emit(Emit(st, Ev("try", path, I, FALSE)), Ev("throw", path, I, FALSE)))

\* tryOooMatchImplHelper<I>; patterns[1] is the Ooo, sub-pattern off + 1
tryOooMatchImplHelper(I, values, patterns, path, off, st) ==
    IF I = 0
    THEN LET r == tryOooMatch(values, dropPatterns(1, patterns), path, off + 1,
                              Emit(st, Ev("try", path, 0, FALSE)))
         IN IF r.exc THEN r ELSE Emit(r, Ev("cont", path, 0, r.res))
    ELSE IF MatchFuncDefined(TupV(take(I, values)), patterns[1])
    THEN LET e == Ooo_matchPatternImplSingle(values[I], patterns[1],
                        Append(path, off + 1), Emit(st, Ev("try", path, I, FALSE)))
         IN IF e.exc THEN e
            ELSE IF ~e.res
            THEN Throw(Emit(Emit(e, Ev("elem", path, I - 1, FALSE)), Ev("throw", path, I, FALSE)))
            ELSE LET r == tryOooMatch(drop(I, values), dropPatterns(1, patterns), path, off + 1,
                                      Temp(Emit(e, Ev("elem", path, I - 1, TRUE))))
                 IN IF r.exc THEN r ELSE Emit(r, Ev("cont", path, I, r.res))
    ELSE Throw(Emit(Emit(st, Ev("try", path, I, FALSE)), Ev("throw", path, I, FALSE)))

\* the fold (tryOooMatchImplHelper<I>(values, patterns) || ...), from I on;
\* the temporaries of a candidate are destroyed before the next one is tried
tryOooMatchFold(I, values, patterns, path, off, st) ==
    IF I > Len(values) THEN Ret(st, FALSE)
    ELSE LET r == tryOooMatchImplHelper(I, values, patterns, path, off, st)
         IN IF r.exc \/ r.res THEN r
            ELSE tryOooMatchFold(I + 1, values, patterns, path, off, Leave(r, st))

\* mutant: the fold without its try / catch
tryOooMatchImpl_noCatch(values, patterns, path, off, st) ==
    LET r == tryOooMatchFold(0, values, patterns, path, off,
                             Emit(st, Ev("search", path, Len(values), FALSE)))
    IN IF r.exc THEN r ELSE Emit(r, Ev("found", path, 0, r.res))

\* mutant: the index sequence of the fold starts at 1, split size 0 is skipped
tryOooMatchImpl_fromOne(values, patterns, path, off, st) ==
    LET r == tryOooMatchFold(1, values, patterns, path, off,
                             Emit(st, Ev("search", path, Len(values), FALSE)))
    IN IF r.exc
       THEN Emit([r EXCEPT !.exc = FALSE, !.res = FALSE], Ev("catch", path, 0, FALSE))
       ELSE Emit(r, Ev("found", path, 0, r.res))

\* try { fold } catch (const OooMatchBreak &) { return false; }
tryOooMatchImpl(values, patterns, path, off, st) ==
    LET r == tryOooMatchFold(0, values, patterns, path, off,
                             Emit(st, Ev("search", path, Len(values), FALSE)))
    IN IF r.exc
       THEN Emit([r EXCEPT !.exc = FALSE, !.res = FALSE], Ev("catch", path, 0, FALSE))
       ELSE Emit(r, Ev("found", path, 0, r.res))

(***************************************************************************)
(* resetId: PatternTraits<...>::resetIdImpl, on the cells.                 *)
(***************************************************************************)
resetIdAll(ps, i, cells) ==
    IF i > Len(ps) THEN cells ELSE resetIdAll(ps, i + 1, resetId(ps[i], cells))

\* mutant: resetIdImpl of Not and of Ooo left empty, as that of Meet is
resetId_shallow(p, cells) ==
    CASE p.k = "Id" -> Id_reset(cells, p.n)
      [] p.k \in {"Or", "And", "Ds"} -> resetIdAll(p.ps, 1, cells)
      [] p.k \in {"App", "PostCheck"} -> resetId(p.ps[1], cells)
      [] OTHER -> cells

resetId(p, cells) ==
    CASE p.k = "Id" -> Id_reset(cells, p.n)
      [] p.k \in {"Or", "And", "Ds"} -> resetIdAll(p.ps, 1, cells)
      [] p.k \in {"App", "Not", "Ooo", "PostCheck"} -> resetId(p.ps[1], cells)
      [] OTHER -> cells

(***************************************************************************)
(* Inputs: the values a caller passes and the patterns a caller builds.    *)
(***************************************************************************)
RECURSIVE SeqsUpTo(_, _)
SeqsUpTo(S, n) ==
    IF n = 0 THEN {<<>>}
    ELSE LET R == SeqsUpTo(S, n - 1)
         IN R \cup {Append(s, x) : s \in {r \in R : Len(r) = n - 1}, x \in S}

Ints == {IntV(1), IntV(2)}
Tuples == {TupV(s) : s \in SeqsUpTo(Ints, MaxLen)}

\* the sequences of the rest-pruning examples
RestExamples ==
    {TupV(<<IntV(2), IntV(4), IntV(5)>>), TupV(<<IntV(2), IntV(3), IntV(5)>>),
     TupV(<<IntV(2), IntV(4), IntV(6)>>)}

\* tuples of tuples, for nested sequence patterns
NestedValues ==
    {TupV(<<TupV(<<IntV(2), IntV(1)>>)>>),
     TupV(<<TupV(<<IntV(1), IntV(2)>>), TupV(<<IntV(2), IntV(1)>>)>>),
     TupV(<<TupV(<<IntV(2), IntV(2)>>), TupV(<<IntV(2), IntV(1)>>)>>),
     TupV(<<IntV(1), TupV(<<IntV(1), IntV(1)>>)>>)}

RestValues == Tuples \cup RestExamples \cup NestedValues

\* Sequence patterns with one Rest: Ds(head..., Ooo(P), tail...)
RestElems == {Wildcard, Id(1), Meet("isEven"), Not(Id(1))}
Heads == {<<>>, <<Id(1)>>}
Tails == {<<>>, <<Lit(2)>>, <<Id(1)>>, <<Id(2)>>, <<Id(1), Id(2)>>}

\* a Rest at two destructuring depths
NestedRestPatterns ==
    {Ds(<<Ooo(Wildcard), Ds(<<Ooo(Meet("isEven")), Lit(1)>>)>>),
     Ds(<<Ooo(Ds(<<Ooo(Meet("isEven")), Lit(1)>>))>>),
     Ds(<<Ooo(Ds(<<Id(1), Ooo(Id(1))>>)), Ds(<<Lit(2), Ooo(Meet("isOdd"))>>)>>)}

FlatRestPatterns ==
    {Ds(h \o <<Ooo(P)>> \o tl) : h \in Heads, P \in RestElems, tl \in Tails}
    \cup {Ds(<<Ooo(Meet("isEven")), Lit(5)>>)}

RestPatterns == FlatRestPatterns \cup NestedRestPatterns

(***************************************************************************)
(* The program: one pattern object built by the caller from its own Ids    *)
(* (the pattern holds copies of them), the cells the Ids share, and the    *)
(* public calls on it.  pre is the cells at the start of    *)
(* the last call, log the evaluation events of the last match, raised      *)
(* whether it ended by an exception; afterFail records that the last match *)
(* started from a resetId that followed a failed match.  refs is where     *)
(* each referencing cell points: into a value the caller passed (Orig;     *)
(* the caller keeps its values alive), or into a temporary of a match that *)
(* returned (Dead).                                                        *)
(***************************************************************************)
VARIABLES pat, cells, refs, pre, value, result, raised, log, op, afterFail
vars == <<pat, cells, refs, pre, value, result, raised, log, op, afterFail>>

NoCells == [c \in CellIds |-> Null]
NoRefs == [c \in CellIds |-> NoRef]

RECURSIVE HasRef(_)
HasRef(p) == p = RefId(p.n) \/ \E i \in 1..Len(p.ps) : HasRef(p.ps[i])

\* what a read through a dangling pointer can compare as; only a pattern
\* with a referencing Id can make one
UBOutcomes(p) == IF HasRef(p) THEN BOOLEAN ELSE {FALSE}

\* every temporary of a match is destroyed when the match returns
AfterReturn(ref) == [c \in CellIds |-> IF ref[c] \in {NoRef, Orig} THEN ref[c] ELSE Dead]
\* an emptied cell points nowhere
AfterReset(ref, cs) == [c \in CellIds |-> IF cs[c] = Null THEN NoRef ELSE ref[c]]

InitWith(Pats) ==
    /\ pat \in {Copy(p) : p \in Pats}
    /\ cells = NoCells
    /\ refs = NoRefs
    /\ pre = NoCells
    /\ value = Null
    /\ result = FALSE
    /\ raised = FALSE
    /\ log = <<>>
    /\ op = "new"
    /\ afterFail = FALSE

\* the outcome r of a match of v that started from cells c0
Outcome(c0, v, r, name) ==
    /\ cells' = r.cells
    /\ refs' = AfterReturn(r.ref)
    /\ pre' = c0
    /\ value' = v
    /\ result' = r.res
    /\ raised' = r.exc
    /\ log' = r.log
    /\ op' = name
    /\ afterFail' = (op = "resetId" /\ value # Null /\ ~result)
    /\ UNCHANGED pat

\* a direct call of the exported matchPattern(value, pattern)
MatchPattern(Vals) ==
    \E v \in {w \in Vals : Compiles(w, pat)}, ub \in UBOutcomes(pat) :
        \E r \in {matchPattern(v, pat, <<>>, StRef(cells, refs, ub))} :
            Outcome(cells, v, r, "matchPattern")

\* mutant: the arm matches without resetting its pattern first
MatchValue_noReset(Vals) ==
    \E v \in {w \in Vals : Compiles(w, pat)}, ub \in UBOutcomes(pat) :
        \E r \in {matchPattern(v, pat, <<>>, StRef(cells, refs, ub))} :
            Outcome(cells, v, r, "matchValue")

\* PatternPair::matchValue(value): resetId(mPattern), then matchPattern
MatchValue(Vals) ==
    \E v \in {w \in Vals : Compiles(w, pat)}, ub \in UBOutcomes(pat) :
        \E c0 \in {resetId(pat, cells)} :
            \E r \in {matchPattern(v, pat, <<>>, StRef(c0, AfterReset(refs, c0), ub))} :
                Outcome(cells, v, r, "matchValue")

\* resetId(pattern)
ResetId ==
    /\ cells' = resetId(pat, cells)
    /\ refs' = AfterReset(refs, cells')
    /\ pre' = cells
    /\ op' = "resetId"
    /\ log' = <<>>
    /\ UNCHANGED <<pat, value, result, raised, afterFail>>

(***************************************************************************)
(* SpecRest: sequence patterns with a Rest, matched and reset directly.    *)
(***************************************************************************)
InitRest == InitWith(RestPatterns)
NextRest == MatchPattern(RestValues) \/ ResetId
SpecRest == InitRest /\ [][NextRest]_vars

(***************************************************************************)
(* Spec: capture cells, fixed-arity sequences and the combinators.         *)
(***************************************************************************)
SeqPatterns == {Ds(s) : s \in SeqsUpTo({Id(1), Id(2), Lit(1)}, 2)}

NotPatterns ==
    {Not(Id(1)), Not(Lit(1)), Not(Ds(<<Id(1), Id(2)>>)), Not(Or(<<Lit(1), Id(2)>>))}

OrPatterns ==
    {Or(<<Lit(1), Id(1)>>), Or(<<Id(1), Id(2)>>), Or(<<Lit(1), Lit(2), Id(1)>>),
     Or(<<Ds(<<Id(1), Lit(1)>>), Ds(<<Wildcard, Id(1)>>)>>),
     Or(<<PostCheck(Id(1), "false"), Id(2)>>),
     Or(<<Meet("isEven"), PostCheck(Id(2), "true")>>),
     Ds(<<Or(<<Lit(1), Id(1)>>), Or(<<Id(1), Id(2)>>)>>)}

PostCheckPatterns ==
    {PostCheck(Id(1), "true"), PostCheck(Id(1), "false"), PostCheck(Id(1), "xIsEven"),
     PostCheck(Lit(1), "true"), PostCheck(Ds(<<Id(1), Id(2)>>), "false"),
     PostCheck(Ds(<<Id(1), Lit(1)>>), "xIsEven")}

OtherPatterns ==
    {Id(1), Wildcard, And(<<Id(1), Meet("isEven")>>), App("succ", Id(1))}

Patterns ==
    SeqPatterns \cup NotPatterns \cup OrPatterns \cup PostCheckPatterns \cup OtherPatterns

Values == Ints \cup Tuples \cup {TupV(<<IntV(3), IntV(4)>>)}

Init == InitWith(Patterns)
Next == MatchPattern(Values) \/ ResetId
Spec == Init /\ [][Next]_vars

(***************************************************************************)
(* SpecArm: a pattern used as the arm of a match expression, which resets  *)
(* it before matching (PatternPair::matchValue), next to direct calls.     *)
(***************************************************************************)
DeepPatterns ==
    {Ds(<<Ooo(Not(Id(1))),
          PostCheck(And(<<App("succ", Id(2)), Meet("isEven")>>), "true")>>),
     Not(Or(<<App("succ", Id(1)), PostCheck(And(<<Lit(1), Id(2)>>), "false")>>)),
     Ds(<<Id(1), Ooo(Id(1)), Id(2)>>),
     Ds(<<Ooo(Wildcard), Id(1)>>)}

ArmPatterns ==
    DeepPatterns \cup NotPatterns \cup OrPatterns \cup PostCheckPatterns
        \cup {Ds(<<Id(1), Id(1)>>), Ds(<<Id(1), Id(2)>>), And(<<Id(1), Meet("isEven")>>)}

InitArm == InitWith(ArmPatterns)
NextArm == MatchPattern(Values) \/ MatchValue(Values) \/ ResetId
SpecArm == InitArm /\ [][NextArm]_vars

(***************************************************************************)
(* SpecRef: patterns with referencing captures (RefId = Id<Type, false>),  *)
(* at the positions of a sequence, matched directly and as an arm.         *)
(***************************************************************************)
RefPatterns ==
    {RefId(1),
     Ds(<<RefId(1), Wildcard>>), Ds(<<Wildcard, RefId(1)>>),
     Ds(<<RefId(1), RefId(2)>>), Ds(<<RefId(1), RefId(1)>>),
     Ds(<<Wildcard, RefId(1), RefId(1)>>),
     Ds(<<Ds(<<RefId(1), Wildcard>>), Ds(<<RefId(2), Wildcard>>)>>),
     Ds(<<Ooo(Wildcard), RefId(1)>>), Ds(<<Ooo(RefId(1))>>),
     Ds(<<RefId(1), Ooo(Wildcard)>>),
     Ds(<<Ooo(Wildcard), Lit(2), RefId(1)>>),
     Or(<<Lit(1), RefId(1)>>), Not(RefId(1)), App("succ", RefId(1))}

RefValues == Ints \cup Tuples \cup NestedValues

InitRef == InitWith(RefPatterns)
NextRef == MatchPattern(RefValues) \/ MatchValue(RefValues) \/ ResetId
SpecRef == InitRef /\ [][NextRef]_vars

(***************************************************************************)
(* Sanity of the model: no call reaches a deleted tupleMatchImpl, since    *)
(* only calls that compile are made.                                       *)
(***************************************************************************)
NoDeletedCall == \A i \in 1..Len(log) : log[i].ev # "deleted"

(***************************************************************************)
(* Helpers of the properties.                                              *)
(***************************************************************************)
Matched == op = "matchPattern"
Fresh == pre = NoCells
\* a flat sequence pattern with one Rest, matched against a tuple of ints
FlatRestCase == Matched /\ pat \in FlatRestPatterns /\ value \in Tuples \cup RestExamples

OooIndex(p) == CHOOSE i \in 1..Len(p.ps) : isOooV(p.ps[i])
\* the pattern list of p with its Rest(P) replaced by K copies of P
Expand(p, K) ==
    LET j == OooIndex(p)
    IN take(j - 1, p.ps) \o [i \in 1..K |-> p.ps[j].ps[1]] \o drop(j, p.ps)
\* the split K matches: one pattern per element, none left over
SplitMatches(v, p, K) ==
    /\ Len(v.es) = Len(p.ps) - 1 + K
    /\ matchPattern(v, Ds(Expand(p, K)), <<>>, St(NoCells)).res

(***************************************************************************)
(* C1: a Sequence with one Rest(P), matched from freshly reset cells,      *)
(* returns true iff some split K lets the patterns before the Rest, K      *)
(* copies of P and the patterns after it match the elements one for one;   *)
(* in particular Sequence(Rest(Wildcard), Capture(x)) matches (1, 2) and   *)
(* commits x to 2.                                                         *)
(***************************************************************************)
C1_RestMatchesIffSomeSplit ==
    /\ (FlatRestCase /\ Fresh) =>
          (result <=> \E K \in 0..Len(value.es) : SplitMatches(value, pat, K))
    /\ (Matched /\ Fresh /\ pat = Ds(<<Ooo(Wildcard), Id(1)>>)
          /\ value = TupV(<<IntV(1), IntV(2)>>)) =>
          (result /\ cells[1] = IntV(2))

(***************************************************************************)
(* C5: the reference the pruned search is compared with.  An exhaustive    *)
(* search tests every K in 0..N on the same cells: all K covered elements  *)
(* against P, then the continuation, and it never aborts.                  *)
(***************************************************************************)
RECURSIVE ExhaustiveFold(_, _, _, _, _, _)
ExhaustiveFold(K, values, patterns, path, off, st) ==
    IF K > Len(values) THEN Ret(st, FALSE)
    ELSE LET e == IF MatchFuncDefined(TupV(take(K, values)), patterns[1])
                  THEN Ooo_matchPatternImpl(take(K, values), patterns[1], 1,
                                            Append(path, off + 1), st)
                  ELSE Ret(st, FALSE)
             r == IF e.res
                  THEN tryOooMatch(drop(K, values), drop(1, patterns), path, off + 1, e)
                  ELSE e
         IN IF r.res THEN r
            ELSE ExhaustiveFold(K + 1, values, patterns, path, off, r)

ExhaustiveMatch(v, p, c0) ==
    LET j == OooIndex(p)
        h == tupleMatchImpl(take(j - 1, v.es), take(j - 1, p.ps), <<>>, 0, St(c0))
    IN h.res /\ ExhaustiveFold(0, drop(j - 1, v.es), drop(j - 1, p.ps), <<>>, j - 1, h).res

\* C5: whatever the cells at the start, the search that aborts at the first
\* element failing P returns the boolean of the exhaustive search over every K.
C5_PruningIsSound ==
    (Matched /\ pat \in RestPatterns) => (result <=> ExhaustiveMatch(value, pat, pre))

\* an abort cut off candidates: the search of the top sequence threw before
\* its last candidate
C5_Witness ==
    /\ Matched /\ pat \in FlatRestPatterns /\ ~result
    /\ \E i \in 1..Len(log) :
          /\ log[i].ev = "throw" /\ log[i].path = <<>>
          /\ log[i].k < Len(value.es) - (OooIndex(pat) - 1)

(***************************************************************************)
(* C6: rest early abort.                                                   *)
(***************************************************************************)
\* the first event after position i that is the return of the call of path pp
RetOf(i, pp) ==
    CHOOSE r \in (i + 1)..Len(log) :
        /\ log[r].ev = "ret" /\ log[r].path = pp
        /\ \A m \in (i + 1)..(r - 1) : ~(log[m].ev = "ret" /\ log[m].path = pp)

\* an element failing P is followed by the throw, the catch of the same
\* sequence and the false return of that sequence pattern, with nothing between
AbortStopsSearch ==
    \A i \in 1..Len(log) :
        (log[i].ev = "elem" /\ ~log[i].ok) =>
            /\ i + 3 <= Len(log)
            /\ log[i + 1] = Ev("throw", log[i].path, log[i].k + 1, FALSE)
            /\ log[i + 2] = Ev("catch", log[i].path, 0, FALSE)
            /\ log[i + 3] = Ev("ret", log[i].path, 0, FALSE)

\* candidate K > 0 of the top sequence matches P once, against element K - 1
\* of the slice the search started with
CandidateChecksOneElement ==
    FlatRestCase =>
        \A i \in 1..Len(log) :
            (log[i].ev = "try" /\ log[i].k > 0) =>
                LET j == OooIndex(pat)
                    pp == <<j, 1>>
                    r == RetOf(i, pp)
                IN /\ log[i + 1] = Call(pp, value.es[j - 1 + log[i].k])
                   /\ \A m \in (i + 2)..r : ~(log[m].ev = "call" /\ log[m].path = pp)
                   /\ log[r + 1] = Ev("elem", <<>>, log[i].k - 1, log[r].ok)

EvenThenFive == Ds(<<Ooo(Meet("isEven")), Lit(5)>>)
InLog(e) == \E i \in 1..Len(log) : log[i] = e

RestExamplesBehave ==
    (Matched /\ pat = EvenThenFive) =>
        /\ value = TupV(<<IntV(2), IntV(4), IntV(5)>>) =>
              result /\ InLog(Ev("cont", <<>>, 2, TRUE))
        /\ value = TupV(<<IntV(2), IntV(3), IntV(5)>>) =>
              /\ ~result
              /\ InLog(Ev("elem", <<>>, 1, FALSE))
              /\ \A i \in 1..Len(log) : ~(log[i].ev \in {"try", "cont"} /\ log[i].k > 2)
              /\ ~InLog(Ev("cont", <<>>, 2, FALSE)) /\ ~InLog(Ev("cont", <<>>, 2, TRUE))
        /\ value = TupV(<<IntV(2), IntV(4), IntV(6)>>) =>
              ~result /\ \A K \in 0..3 : InLog(Ev("cont", <<>>, K, FALSE))

\* C6: candidate K examines only element K - 1; when it fails P the search of
\* the sequence stops at once and the sequence returns false; the examples.
C6_RestEarlyAbort ==
    AbortStopsSearch /\ CandidateChecksOneElement /\ RestExamplesBehave

C6_Witness ==
    /\ Matched /\ pat = EvenThenFive /\ ~result
    /\ value = TupV(<<IntV(2), IntV(3), IntV(5)>>)
    /\ InLog(Ev("throw", <<>>, 2, FALSE))

(***************************************************************************)
(* C7: every OooMatchBreak is caught by the search of the sequence that    *)
(* raised it, and no match ends by an exception.                           *)
(***************************************************************************)
C7_BreakNeverEscapes ==
    /\ ~raised
    /\ \A i \in 1..Len(log) :
          log[i].ev = "throw" =>
              i < Len(log) /\ log[i + 1] = Ev("catch", log[i].path, 0, FALSE)

\* a break raised by a nested sequence, inside the search of the outer one
C7_Witness ==
    /\ Matched /\ pat \in NestedRestPatterns
    /\ \E i \in 1..Len(log) : log[i].ev = "throw" /\ log[i].path # <<>>
    /\ \E i \in 1..Len(log) : log[i].ev = "throw" /\ log[i].path = <<>>

(***************************************************************************)
(* Helpers of the properties on combinators.                               *)
(***************************************************************************)
RECURSIVE NodeAt(_, _)
NodeAt(p, path) == IF path = <<>> THEN p ELSE NodeAt(p.ps[Head(path)], Tail(path))

RECURSIVE CellsOf(_)
CellsOf(p) ==
    IF p.k = "Id" THEN {p.n}
    ELSE UNION {CellsOf(p.ps[i]) : i \in 1..Len(p.ps)}

Last(s) == s[Len(s)]
FreshMatch(v, p) == matchPattern(v, p, <<>>, St(NoCells))

(***************************************************************************)
(* C2: capture consistency.  A match against an uncommitted cell commits   *)
(* it and is true; against a committed cell it is true iff the value is    *)
(* the committed one and the cell keeps its value; no exception.  A        *)
(* sequence of captures on fresh cells matches iff the elements captured   *)
(* by the same cell are equal, so Sequence(x, x) matches (a, b) iff a = b, *)
(* and after a failed match and resetId it matches every (c, c).           *)
(***************************************************************************)
AllCaptures(p) == p.k = "Ds" /\ \A i \in 1..Len(p.ps) : p.ps[i].k = "Id"

C2_CaptureConsistency ==
    /\ ~raised
    /\ (Matched /\ pat = Id(1)) =>
          IF pre[1] = Null
          THEN result /\ cells[1] = value
          ELSE (result <=> value = pre[1]) /\ cells = pre
    /\ (Matched /\ Fresh /\ AllCaptures(pat) /\ value.t = "tup"
          /\ Len(value.es) = Len(pat.ps)) =>
          (result <=> \A i, j \in 1..Len(pat.ps) :
                          pat.ps[i] = pat.ps[j] => value.es[i] = value.es[j])
    /\ (Matched /\ afterFail /\ pat = Ds(<<Id(1), Id(1)>>) /\ Len(value.es) = 2
          /\ value.es[1] = value.es[2]) => result

\* Sequence(x, x) matches (c, c) after a failed match and a reset
C2_Witness ==
    /\ Matched /\ afterFail /\ pat = Ds(<<Id(1), Id(1)>>)
    /\ Len(value.es) = 2 /\ value.es[1] = value.es[2] /\ result

(***************************************************************************)
(* C3: after a match of Not(P) every capture cell inside P is uncommitted, *)
(* whether P matched or not.                                               *)
(***************************************************************************)
C3_NotLeavesCellsUncommitted ==
    (Matched /\ pat \in NotPatterns) =>
        \A c \in CellsOf(pat.ps[1]) : cells[c] = Null

(***************************************************************************)
(* C4: a Sequence without Rest matched against a tuple of another length   *)
(* returns false at once: no sub-pattern is evaluated, no cell committed.  *)
(***************************************************************************)
C4_ArityMismatchFailsAtOnce ==
    (Matched /\ pat \in SeqPatterns /\ value.t = "tup" /\ Len(value.es) # Len(pat.ps)) =>
        /\ ~result
        /\ cells = pre
        /\ log = <<Call(<<>>, value), Ev("ret", <<>>, 0, FALSE)>>

(***************************************************************************)
(* C8: every evaluation of an Or calls its sub-patterns once each, in      *)
(* order from the first, on the value of the Or, up to the first that      *)
(* matches: it is true with that one, false after all of them failed, and  *)
(* the cells that only sub-patterns right of the last one called capture   *)
(* are left as they were.                                                  *)
(***************************************************************************)
OrShortCircuit(i) ==
    LET p == log[i].path
        n == Len(NodeAt(pat, p).ps)
        r == RetOf(i, p)
        calls == {m \in (i + 1)..(r - 1) :
                     log[m].ev = "call" /\ Len(log[m].path) = Len(p) + 1}
        j == Cardinality(calls)
    IN /\ {Last(log[m].path) : m \in calls} = 1..j
       /\ \A m1, m2 \in calls : m1 < m2 => Last(log[m1].path) < Last(log[m2].path)
       /\ \A m \in calls :
             /\ log[m].v = log[i].v
             /\ LET rm == RetOf(m, log[m].path)
                IN /\ rm < r
                   /\ log[rm].ok <=> (Last(log[m].path) = j /\ log[r].ok)
       /\ log[r].ok => j >= 1
       /\ ~log[r].ok => j = n
       /\ \A m \in (i + 1)..(r - 1) :
             Len(log[m].path) > Len(p) => log[m].path[Len(p) + 1] <= j

UntriedCells(p, j) ==
    UNION {CellsOf(p.ps[i]) : i \in (j + 1)..Len(p.ps)}
        \ UNION {CellsOf(p.ps[i]) : i \in 1..j}

C8_OrShortCircuit ==
    /\ \A i \in 1..Len(log) :
          (log[i].ev = "call" /\ NodeAt(pat, log[i].path).k = "Or") => OrShortCircuit(i)
    /\ (Matched /\ pat.k = "Or") =>
          LET j == Cardinality({m \in 1..Len(log) :
                                   log[m].ev = "call" /\ Len(log[m].path) = 1})
          IN \A c \in UntriedCells(pat, j) : cells[c] = pre[c]

\* the first alternative matched, the cell of the second was never committed
C8_Witness ==
    /\ Matched /\ Fresh /\ pat = Or(<<Id(1), Id(2)>>)
    /\ result /\ cells[1] = value /\ cells[2] = Null

(***************************************************************************)
(* C9: an Or on fresh cells matches iff one of its sub-patterns, matched   *)
(* alone on fresh cells, matches; Or(Sequence(x, 1), Sequence(_, x))       *)
(* matches (3, 4).                                                         *)
(***************************************************************************)
C9_OrMatchesIffSomeAlternative ==
    /\ (Matched /\ Fresh /\ pat.k = "Or") =>
          (result <=> \E i \in 1..Len(pat.ps) : FreshMatch(value, pat.ps[i]).res)
    /\ (Matched /\ Fresh /\ value = TupV(<<IntV(3), IntV(4)>>)
          /\ pat = Or(<<Ds(<<Id(1), Lit(1)>>), Ds(<<Wildcard, Id(1)>>)>>)) => result

(***************************************************************************)
(* C10: PostCheck(P, guard) evaluates P first and calls the guard only if  *)
(* P matched, right after P returned; it is true iff P matched and the     *)
(* guard returned true; the cells are those P left, also when the guard    *)
(* returned false, and a committed cell keeps its value through every      *)
(* later match until resetId.                                              *)
(***************************************************************************)
C10_PostCheck ==
    /\ Matched => \A c \in CellIds : pre[c] # Null => cells[c] = pre[c]
    /\ (Matched /\ pat \in PostCheckPatterns) =>
        LET inner == matchPattern(value, pat.ps[1], <<1>>, St(pre))
            guards == {g \in 1..Len(log) : log[g].ev = "guard"}
        IN /\ result <=> (inner.res /\ Guard(pat.f, inner.cells))
           /\ cells = inner.cells
           /\ Cardinality(guards) = IF inner.res THEN 1 ELSE 0
           /\ \A g \in guards :
                 /\ log[g - 1] = Ev("ret", <<1>>, 0, TRUE)
                 /\ log[g] = Ev("guard", <<>>, 0, Guard(pat.f, inner.cells))
                 /\ log[g + 1] = Ev("ret", <<>>, 0, log[g].ok)

\* P matched and committed x, the guard returned false
C10_Witness ==
    /\ Matched /\ Fresh /\ pat = PostCheck(Id(1), "false")
    /\ ~result /\ cells[1] = value /\ InLog(Ev("guard", <<>>, 0, FALSE))

(***************************************************************************)
(* C11: after resetId(pattern) every capture cell reachable from the       *)
(* pattern through any nesting of Or, And, Not, App, PostCheck, Ds and Ooo *)
(* is uncommitted, whatever the cells were before the call.                *)
(***************************************************************************)
C11_ResetClearsEveryCell ==
    op = "resetId" => \A c \in CellsOf(pat) : cells[c] = Null

\* both cells of a deep pattern were committed when resetId was called
C11_Witness ==
    /\ op = "resetId" /\ pat \in DeepPatterns
    /\ \A c \in CellIds : pre[c] # Null /\ cells[c] = Null

(***************************************************************************)
(* C12: the result and the final cells of an arm's matchValue(v) are those *)
(* of matching v with a newly built pattern, whatever calls came before.   *)
(***************************************************************************)
NewlyBuilt(v, p, ub) == matchPattern(v, p, <<>>, StRef(NoCells, NoRefs, ub))

C12_ArmIsHistoryFree ==
    op = "matchValue" =>
        \A ub \in UBOutcomes(pat) :
            LET f == NewlyBuilt(value, pat, ub)
            IN result = f.res /\ cells = f.cells /\ refs = AfterReturn(f.ref)

\* the same for arms whose captures all own their value
C12_OwningArmIsHistoryFree ==
    (op = "matchValue" /\ ~HasRef(pat)) =>
        LET f == FreshMatch(value, pat)
        IN result = f.res /\ cells = f.cells /\ refs = NoRefs

(***************************************************************************)
(* C13: after a successful match every committed referencing cell points   *)
(* into the value the caller passed, at whatever position of a sequence    *)
(* the capture stands, never into a temporary that died with the match.    *)
(***************************************************************************)
AnyMatch == op \in {"matchPattern", "matchValue"}

C13_RefDesignatesOriginal ==
    (AnyMatch /\ result /\ pat.k = "Ds") =>
        \A c \in CellIds : (cells[c] # Null /\ refs[c] # NoRef) => refs[c] = Orig

(***************************************************************************)
(* C14: between two resets a cell is committed at most once.  In a match   *)
(* a cell committed at the start is never committed again and keeps its    *)
(* value; an empty cell is committed at most once and ends with the value  *)
(* of that commit, on success and on failure of the match; resetId leaves  *)
(* the cells its pattern does not reach as they were.                      *)
(***************************************************************************)
\* the cells when the match proper started
Start == IF op = "matchValue" THEN resetId(pat, pre) ELSE pre
Commits(c) == {i \in 1..Len(log) : log[i].ev = "commit" /\ log[i].k = c}

C14_CommittedAtMostOnce ==
    /\ AnyMatch =>
          \A c \in CellIds :
              /\ Cardinality(Commits(c)) <= 1
              /\ Start[c] # Null => (Commits(c) = {} /\ cells[c] = Start[c])
              /\ (Start[c] = Null /\ Commits(c) = {}) => cells[c] = Null
              /\ \A i \in Commits(c) :
                    log[i - 1].ev = "call" /\ cells[c] = log[i - 1].v
    /\ op = "resetId" => \A c \in CellIds \ CellsOf(pat) : cells[c] = pre[c]

\* a committed cell met another value under a negation and kept its own
C14_Witness ==
    /\ Matched /\ pat = Not(Id(1)) /\ result
    /\ pre[1] # Null /\ value # pre[1] /\ cells[1] = pre[1]

(***************************************************************************)
(* C15: a rest search over a slice of N elements tests the split sizes     *)
(* K = 0, 1, 2, ... in ascending order, K = 0 first and before any element *)
(* is matched against P; it stops at the first K whose continuation        *)
(* matches and is true exactly then; it tests at most N + 1 candidates,    *)
(* all of them before it is false without an abort; and it matches each    *)
(* element of the slice against P at most once.                            *)
(***************************************************************************)
\* the event that ends the search started at event s
EndOf(s) ==
    CHOOSE e \in (s + 1)..Len(log) :
        /\ log[e].ev \in {"found", "catch"} /\ log[e].path = log[s].path
        /\ \A m \in (s + 1)..(e - 1) :
              ~(log[m].ev \in {"found", "catch"} /\ log[m].path = log[s].path)

\* the events of kind ev of the search started at event s
OfSearch(s, ev) ==
    {i \in s..EndOf(s) : log[i].ev = ev /\ log[i].path = log[s].path}

SearchInOrder(s) ==
    LET p == log[s].path
        N == log[s].k
        e == EndOf(s)
        T == OfSearch(s, "try")
        n == Cardinality(T)
    IN /\ log[s + 1] = Ev("try", p, 0, FALSE)
       /\ {log[i].k : i \in T} = 0..(n - 1)
       /\ \A i, j \in T : i < j => log[i].k < log[j].k
       /\ n <= N + 1
       /\ \A i \in OfSearch(s, "cont") :
             log[i].ok => (log[i].k = n - 1 /\ e = i + 1 /\ log[e] = Ev("found", p, 0, TRUE))
       /\ (log[e].ev = "found" /\ log[e].ok) => log[e - 1] = Ev("cont", p, n - 1, TRUE)
       /\ (log[e].ev = "found" /\ ~log[e].ok) =>
             (n = N + 1 /\ \A K \in 0..N : \E i \in OfSearch(s, "cont") :
                                              log[i].k = K /\ ~log[i].ok)
       /\ \A i, j \in OfSearch(s, "elem") : i # j => log[i].k # log[j].k
       /\ \A i \in OfSearch(s, "elem") : log[i].k < N

C15_AscendingSplitSizes ==
    \A s \in 1..Len(log) : log[s].ev = "search" => SearchInOrder(s)

\* split sizes 0 and 1 failed, 2 matched, 3 was never tried
C15_Witness ==
    /\ Matched /\ pat = Ds(<<Ooo(Wildcard), Lit(2)>>) /\ result
    /\ value = TupV(<<IntV(1), IntV(2), IntV(2)>>)
    /\ InLog(Ev("cont", <<>>, 0, FALSE)) /\ InLog(Ev("cont", <<>>, 1, FALSE))
    /\ InLog(Ev("cont", <<>>, 2, TRUE))
    /\ \A i \in 1..Len(log) : ~(log[i].ev = "try" /\ log[i].k > 2)

(***************************************************************************)
(* C16: rest levels resolve independently.  When a sequence with its own   *)
(* Rest stands in the continuation of an outer sequence with a Rest, an    *)
(* abort of the nested search is caught there: the nested sequence returns *)
(* false, the continuation of the outer candidate K fails, and the outer   *)
(* search goes on with K + 1 (or ends false after its last candidate); it  *)
(* is not aborted.                                                         *)
(***************************************************************************)
Front(s) == SubSeq(s, 1, Len(s) - 1)

\* the last event of kind ev at path p before position i
LastBefore(i, ev, p) ==
    CHOOSE m \in 1..(i - 1) :
        /\ log[m].ev = ev /\ log[m].path = p
        /\ \A m2 \in (m + 1)..(i - 1) : ~(log[m2].ev = ev /\ log[m2].path = p)

\* the sequence at path p stands after the Rest of the sequence around it
InContinuation(p) ==
    /\ p # <<>>
    /\ NodeAt(pat, Front(p)).k = "Ds"
    /\ \E j \in 1..(Last(p) - 1) : isOooV(NodeAt(pat, Front(p)).ps[j])

NestedAbortIsLocal(i) ==
    LET p == log[i].path
        q == Front(p)
        K == log[LastBefore(i, "try", q)].k
        N == log[LastBefore(i, "search", q)].k
    IN /\ i + 4 <= Len(log)
       /\ log[i + 1] = Ev("catch", p, 0, FALSE)
       /\ log[i + 2] = Ev("ret", p, 0, FALSE)
       /\ log[i + 3] = Ev("cont", q, K, FALSE)
       /\ log[i + 4] = IF K < N THEN Ev("try", q, K + 1, FALSE)
                                ELSE Ev("found", q, 0, FALSE)

C16_RestLevelsIndependent ==
    \A i \in 1..Len(log) :
        (log[i].ev = "throw" /\ InContinuation(log[i].path)) => NestedAbortIsLocal(i)

\* the nested search aborted under outer candidate 0, the outer search went
\* on and matched with candidate 1
C16_Witness ==
    /\ Matched /\ result
    /\ pat = Ds(<<Ooo(Wildcard), Ds(<<Ooo(Meet("isEven")), Lit(1)>>)>>)
    /\ \E i \in 1..Len(log) :
          /\ log[i].ev = "throw" /\ log[i].path = <<2>>
          /\ log[i + 3] = Ev("cont", <<>>, 0, FALSE)
          /\ log[i + 4] = Ev("try", <<>>, 1, FALSE)
    /\ InLog(Ev("cont", <<>>, 1, TRUE))

(***************************************************************************)
(* C17: all copies of an Id share one cell.  The Ids inside the pattern    *)
(* are copies of the caller's Ids (copied into the pattern classes, copied *)
(* again by drop during a match); a commit made through any of them is     *)
(* read by the caller's original, two copies of one original designate the *)
(* same cell, and after resetId on the pattern the originals are empty.    *)
(***************************************************************************)
\* the pattern as the caller wrote it, with the caller's own Ids
Written == CHOOSE w \in ArmPatterns : Copy(w) = pat

RECURSIVE IdPaths(_)
IdPaths(p) ==
    IF p.k = "Id" THEN {<<>>}
    ELSE UNION {{<<i>> \o q : q \in IdPaths(p.ps[i])} : i \in 1..Len(p.ps)}

C17_CopiesShareOneCell ==
    /\ \A p1, p2 \in IdPaths(Written) :
          NodeAt(Written, p1).n = NodeAt(Written, p2).n
              => NodeAt(pat, p1).n = NodeAt(pat, p2).n
    /\ AnyMatch =>
          \A i \in 1..Len(log) :
              log[i].ev = "commit" =>
                  /\ log[i].path \in IdPaths(Written)
                  /\ log[i].k = NodeAt(Written, log[i].path).n
                  /\ cells[NodeAt(Written, log[i].path).n] = log[i - 1].v
    /\ op = "resetId" => \A h \in CellsOf(Written) : cells[h] = Null

\* x and y read the elements committed through their copies; the copy of y
\* that committed was made by drop
C17_Witness ==
    /\ AnyMatch /\ result /\ Written = Ds(<<Id(1), Id(2)>>)
    /\ value = TupV(<<IntV(1), IntV(2)>>)
    /\ cells[1] = IntV(1) /\ cells[2] = IntV(2)
    /\ InLog(Ev("commit", <<2>>, 2, TRUE))

====
